---- MODULE Spec2Model ----
(***************************************************************************)
(* LivySession (remotespark/livyclientlib/livysession.py): the client-side *)
(* state machine of one Livy session.  The session is single-threaded and  *)
(* synchronous; pc is the position of the one caller inside the method it  *)
(* is executing, and every answer of the HTTP transport is an input chosen *)
(* nondeterministically at the step that issues the request.               *)
(***************************************************************************)
EXTENDS Integers, Sequences, FiniteSets, TLC

VARIABLES
    id,                     \* self._id (a string)
    state,                  \* self._state, the cached session state
    started_sql_context,    \* self._started_sql_context
    language,               \* self._language
    state_sleep_seconds,    \* self._state_sleep_seconds
    create_sql_context_timeout_seconds,
    pc,                     \* "ready" between calls, else the position in a call
    op,                     \* the public method being (or last) executed
    target,                 \* wait_for_state: the state argument
    budget,                 \* wait_for_state: seconds_to_wait of the current recursion level
    T0,                     \* wait_for_state: seconds_to_wait of the outermost call
    statement_id,           \* execute: the id returned by the statement POST
    polls,                  \* state reads (GET /sessions) issued by the current call
    sleeps,                 \* sleep(state_sleep_seconds) calls of the current call
    posts,                  \* POST requests issued by the current call
    deletes,                \* DELETE requests issued by the current call
    stmtPolls,              \* GET .../statements issued by the current call (saturating)
    stmtSleeps,             \* sleep(statement_sleep_seconds) calls of the current call
                            \* (saturating)
    stmtParity,             \* whether that number of sleeps is odd
    lastReq,                \* the last request handed to the transport
    obs,                    \* the statement entry selected by the last statement poll
    outcome,                \* "pending", "ok", or the error the call raised
    retval,                 \* the value the call returned (or the state named in a timeout)
    current_state,          \* the value the last read of the state property returned
    fetched,                \* what the last GET /sessions answered, summarised
    deleteStatus,           \* the status code the last DELETE was answered with
    startResp,              \* what the last POST /sessions was answered with
    args,                   \* the session_id and sql_created given to __init__
                            \* (arguments: gone once a method has been called)
    deleted,                \* history: some delete() call has succeeded
    cscReturned             \* history: how the first create_sql_context() call that
                            \* returned normally did so ("bootstrapped" or "noop")

vars == <<id, state, started_sql_context, language, state_sleep_seconds,
          create_sql_context_timeout_seconds, pc, op, target, budget, T0,
          statement_id, polls, sleeps, posts, deletes, stmtPolls, stmtSleeps,
          stmtParity, lastReq, obs,
          outcome, retval, current_state, fetched, deleteStatus, startResp, args,
          deleted, cscReturned>>

session == <<id, state, started_sql_context, language>>
config  == <<state_sleep_seconds, create_sql_context_timeout_seconds>>
history == <<deleted, cscReturned>>

(***************************************************************************)
(* Bounds of the model.                                                    *)
(***************************************************************************)
MaxSessions == 2        \* longest session list the server returns
MaxStatements == 2      \* longest statement list the server returns
MaxWait == 3            \* largest seconds_to_wait passed to wait_for_state
MaxStmtPolls == 1       \* the statement-poll counter saturates here

\* Constructor arguments tried (both must be > 0, resp. >= 0).
StateSleepSeconds == {1, 2}
CreateSqlContextTimeouts == {2}

(***************************************************************************)
(* Values.                                                                 *)
(***************************************************************************)
NotStartedId == "-1"
idle_session_state == "idle"
possible_session_states ==
    {"not_started", idle_session_state, "starting", "busy", "error", "dead"}

\* State strings the server puts on the wire in this model: two the client
\* knows and one it does not.
WireStates == {idle_session_state, "starting", "unknown"}

\* Ids the server assigns (integers on the wire); never -1, the integer the
\* sentinel id stands for.
ServerIds == {7, 8}

\* str(n) of the ids above and int(s) of the id strings a session can hold.
\* Session ids are string forms of integers (spec.md, section 3).
IdStr(n) == CASE n = 7 -> "7" [] n = 8 -> "8" [] n = -1 -> "-1"
IdInt(s) == CASE s = "7" -> 7 [] s = "8" -> 8 [] s = "-1" -> -1

lang_scala == "scala"
lang_python == "python"
lang_supported == {lang_scala, lang_python}
LanguageArgs == {"Python", "r"}
Lower(s) == CASE s = "Python" -> "python" [] OTHER -> s

Min(a, b) == IF a < b THEN a ELSE b
Max(a, b) == IF a > b THEN a ELSE b
SeqsUpTo(S, n) == UNION {[1..k -> S] : k \in 0..n}

NoStatement == [id |-> -1, state |-> "none",
                output |-> [status |-> "none", text |-> "none", evalue |-> "none"]]
NoFetch == [ok |-> FALSE, n |-> 0, st |-> "none"]
NoRequest == [verb |-> "none", path |-> <<>>, body |-> "none"]
NoStartResponse == [ok |-> FALSE, id |-> -1, state |-> "none"]
NoArgs == [session_id |-> "none", sql_created |-> FALSE]

(***************************************************************************)
(* What the transport can answer.  ok = FALSE is the transport raising     *)
(* (a connection error or a status code outside the allowed list).         *)
(***************************************************************************)
SessionEntries == [id : ServerIds, state : WireStates]
SessionListResponses ==
    [ok : {TRUE}, sessions : SeqsUpTo(SessionEntries, MaxSessions)]
        \cup {[ok |-> FALSE, sessions |-> <<>>]}

\* The summary kept of a session list: whether the transport answered, how
\* many of its entries carry the integer id wanted, and the state of that
\* entry when there is exactly one.
Fetched(resp, wanted) ==
    LET hits == {i \in DOMAIN resp.sessions : resp.sessions[i].id = wanted}
    IN  [ok |-> resp.ok,
         n  |-> Cardinality(hits),
         st |-> IF Cardinality(hits) = 1
                THEN resp.sessions[CHOOSE i \in hits : TRUE].state
                ELSE "none"]

StartResponses ==
    [ok : {TRUE}, id : ServerIds, state : WireStates] \cup {NoStartResponse}

\* Ids of the statements the server lists; the one it assigns to a new
\* statement is NewStatementIds.
StatementIds == {0, 1}
NewStatementIds == {0}
StatementPostResponses ==
    [ok : {TRUE}, id : NewStatementIds] \cup {[ok |-> FALSE, id |-> -1]}

\* A running statement has no output yet; a finished one has a status.
NoOutput == [status |-> "none", text |-> "none", evalue |-> "none"]
StatementOutputs ==
    [status : {"ok", "error", "other"}, text : {"text"}, evalue : {"evalue"}]
StatementEntries ==
    [id : StatementIds, state : {"running"}, output : {NoOutput}]
        \cup [id : StatementIds, state : {"available"}, output : StatementOutputs]
StatementListResponses ==
    [ok : {TRUE}, statements : SeqsUpTo(StatementEntries, MaxStatements)]
        \cup {[ok |-> FALSE, statements |-> <<>>]}

DeleteStatuses == {200, 404, 500}

(***************************************************************************)
(* Pure parts of the methods.                                              *)
(***************************************************************************)
\* Variant: sql_created is taken as given, whatever the id.
ConstructTrusting(lang, session_id, sql_created) ==
    IF Lower(lang) \notin lang_supported
    THEN [err |-> "ValueError", id |-> session_id, state |-> "none",
          sql |-> FALSE, language |-> Lower(lang)]
    ELSE [err |-> "none", id |-> session_id,
          state |-> IF session_id = NotStartedId THEN "not_started" ELSE "busy",
          sql |-> sql_created, language |-> Lower(lang)]

\* Variant: an adopted session starts in the state of a fresh one.
ConstructAlwaysFresh(lang, session_id, sql_created) ==
    IF session_id = NotStartedId /\ sql_created
    THEN [err |-> "ValueError", id |-> session_id, state |-> "none",
          sql |-> FALSE, language |-> lang]
    ELSE IF Lower(lang) \notin lang_supported
    THEN [err |-> "ValueError", id |-> session_id, state |-> "none",
          sql |-> FALSE, language |-> Lower(lang)]
    ELSE [err |-> "none", id |-> session_id, state |-> "not_started",
          sql |-> FALSE, language |-> Lower(lang)]

\* __init__: the fields of a session built from the arguments, or the error.
Construct(lang, session_id, sql_created) ==
    IF session_id = NotStartedId /\ sql_created
    THEN [err |-> "ValueError", id |-> session_id, state |-> "none",
          sql |-> FALSE, language |-> lang]
    ELSE IF Lower(lang) \notin lang_supported
    THEN [err |-> "ValueError", id |-> session_id, state |-> "none",
          sql |-> FALSE, language |-> Lower(lang)]
    ELSE IF session_id = NotStartedId
    THEN [err |-> "none", id |-> session_id, state |-> "not_started",
          sql |-> FALSE, language |-> Lower(lang)]
    ELSE [err |-> "none", id |-> session_id, state |-> "busy",
          sql |-> sql_created, language |-> Lower(lang)]

\* _get_livy_kind
LivyKind(lang) ==
    IF lang = lang_scala THEN "spark"
    ELSE IF lang = lang_python THEN "pyspark"
    ELSE "ValueError"

\* _get_sql_context_creation_command
SqlContextCommand(lang) ==
    IF lang = lang_scala THEN "val sqlContext = new org.apache.spark.sql.SQLContext(sc)"
    ELSE IF lang = lang_python THEN "sqlContext = SQLContext(sc)"
    ELSE "ValueError"

\* _statements_url
StatementsUrl(sid) == <<"sessions", sid, "statements">>

\* Variant: only an empty match is rejected, the first of several is taken.
GetSessionStateFirstMatch(resp, sid) ==
    LET filtered == SelectSeq(resp.sessions, LAMBDA s : s.id = IdInt(sid))
    IN  IF ~resp.ok THEN [err |-> "HttpError", state |-> "none"]
        ELSE IF Len(filtered) < 1 THEN [err |-> "AssertionError", state |-> "none"]
        ELSE [err |-> "none", state |-> filtered[1].state]

\* _get_session_state: the state string of the one entry with this id.
GetSessionState(resp, sid) ==
    LET filtered == SelectSeq(resp.sessions, LAMBDA s : s.id = IdInt(sid))
    IN  IF ~resp.ok THEN [err |-> "HttpError", state |-> "none"]
        ELSE IF Len(filtered) # 1 THEN [err |-> "AssertionError", state |-> "none"]
        ELSE [err |-> "none", state |-> filtered[1].state]

\* Variant: a read that fails falls back on the cached state.
StatePropertyFallback(resp, sid, cached) ==
    LET g == GetSessionState(resp, sid)
    IN  IF g.err = "none" /\ g.state \in possible_session_states
        THEN [err |-> "none", ret |-> g.state, cache |-> g.state]
        ELSE [err |-> "none", ret |-> cached, cache |-> cached]

\* The state property: ret is the value returned, cache the new self._state.
StateProperty(resp, sid, cached) ==
    LET g == GetSessionState(resp, sid)
    IN  IF g.err # "none" THEN [err |-> g.err, ret |-> "none", cache |-> cached]
        ELSE IF g.state \in possible_session_states
        THEN [err |-> "none", ret |-> g.state, cache |-> g.state]
        ELSE [err |-> "ValueError", ret |-> "none", cache |-> cached]

\* Variant: a budget of zero still buys one more sleep.
WaitDecisionInclusive(current, wanted, seconds_to_wait) ==
    IF current = wanted THEN "return"
    ELSE IF seconds_to_wait >= 0 THEN "sleep"
    ELSE "timeout"

\* Variant: an exhausted budget ends the wait without an error.
WaitDecisionGivesUpQuietly(current, wanted, seconds_to_wait) ==
    IF current = wanted THEN "return"
    ELSE IF seconds_to_wait > 0 THEN "sleep"
    ELSE "return"

\* Variant: the budget is looked at before the state.
WaitDecisionBudgetFirst(current, wanted, seconds_to_wait) ==
    IF seconds_to_wait <= 0 THEN "timeout"
    ELSE IF current = wanted THEN "return"
    ELSE "sleep"

\* wait_for_state after its state read: return, sleep and recurse, or time out.
WaitDecision(current, wanted, seconds_to_wait) ==
    IF current = wanted THEN "return"
    ELSE IF seconds_to_wait > 0 THEN "sleep"
    ELSE "timeout"

\* _get_statement_output: the entries of the list with the statement's id.
MatchingStatements(resp, sid) ==
    SelectSeq(resp.statements, LAMBDA s : s.id = sid)

\* Variant: the loop ends after its first look at the statement.
StatementLoopLooksOnce(statement_state) == "done"

\* _get_statement_output: sleep and poll again while the statement runs.
StatementLoop(statement_state) ==
    IF statement_state = "running" THEN "sleep" ELSE "done"

\* Variant: the two payload fields are taken the wrong way round.
StatementOutputSwapped(statement_output) ==
    IF statement_output.status = "ok" THEN statement_output.evalue
    ELSE IF statement_output.status = "error" THEN statement_output.text
    ELSE ""

\* _get_statement_output: the output of a statement that is not running.
StatementOutput(statement_output) ==
    IF statement_output.status = "ok" THEN statement_output.text
    ELSE IF statement_output.status = "error" THEN statement_output.evalue
    ELSE ""

\* Variant: only a dead session is refused.
DeleteAllowedUnlessDead(st) == st # "dead"

\* delete: the guard on the cached state.
DeleteAllowed(st) == st # "not_started" /\ st # "dead"

\* Variant: a 404 answer is not accepted.
DeleteAcceptedOnly200(status) == status \in {200}

\* delete: the status codes the DELETE accepts.
DeleteAccepted(status) == status \in {200, 404}

(***************************************************************************)
(* Initial states: every session a successful construction yields.         *)
(***************************************************************************)
Init ==
    /\ \E lang \in LanguageArgs, sid \in {NotStartedId, "7"}, sql \in BOOLEAN :
        LET c == Construct(lang, sid, sql)
        IN  /\ c.err = "none"
            /\ args = [session_id |-> sid, sql_created |-> sql]
            /\ id = c.id
            /\ state = c.state
            /\ started_sql_context = c.sql
            /\ language = c.language
    /\ state_sleep_seconds \in StateSleepSeconds
    /\ create_sql_context_timeout_seconds \in CreateSqlContextTimeouts
    /\ pc = "ready"
    /\ op = "init"
    /\ target = "none"
    /\ budget = 0
    /\ T0 = 0
    /\ statement_id = -1
    /\ polls = 0
    /\ sleeps = 0
    /\ posts = 0
    /\ deletes = 0
    /\ stmtPolls = 0
    /\ stmtSleeps = 0
    /\ stmtParity = FALSE
    /\ lastReq = NoRequest
    /\ obs = NoStatement
    /\ outcome = "ok"
    /\ retval = "none"
    /\ deleted = FALSE
    /\ current_state = "none"
    /\ fetched = NoFetch
    /\ deleteStatus = 0
    /\ startResp = NoStartResponse
    /\ cscReturned = "none"

(***************************************************************************)
(* Bookkeeping shared by the actions.                                      *)
(***************************************************************************)
Counters(g, s, p, d, sp) ==
    /\ polls' = g
    /\ sleeps' = s
    /\ posts' = p
    /\ deletes' = d
    /\ stmtPolls' = sp

NoWait == target' = "none" /\ budget' = 0 /\ T0' = 0
NoRead == current_state' = "none" /\ fetched' = NoFetch
NoDelete == deleteStatus' = 0
NoStart == startResp' = NoStartResponse
ArgsGone == args' = NoArgs
NoStatementYet ==
    /\ statement_id' = -1
    /\ obs' = NoStatement
    /\ stmtSleeps' = 0
    /\ stmtParity' = FALSE

(***************************************************************************)
(* start(): one POST /sessions; id and state are taken from the answer.    *)
(***************************************************************************)
\* Variant: a started session begins without a sql context.
FlagAfterStartReset(flag) == FALSE

\* start: _started_sql_context is not assigned.
FlagAfterStart(flag) == flag

\* Variant: a session that was just created is taken to be starting.
StartResultAssumesStarting(r, cur_id, cur_state) ==
    IF r.ok
    THEN [err |-> "none", id |-> IdStr(r.id), state |-> "starting"]
    ELSE [err |-> "HttpError", id |-> cur_id, state |-> cur_state]

\* start: what the answer of the POST makes of _id and _state.
StartResult(r, cur_id, cur_state) ==
    IF r.ok
    THEN [err |-> "none", id |-> IdStr(r.id), state |-> r.state]
    ELSE [err |-> "HttpError", id |-> cur_id, state |-> cur_state]

Start ==
    /\ pc = "ready"
    /\ pc' = "ready"
    /\ op' = "start"
    /\ IF LivyKind(language) = "ValueError"
       THEN /\ outcome' = "ValueError"
            /\ Counters(0, 0, 0, 0, 0)
            /\ NoStart
            /\ UNCHANGED <<id, state, lastReq>>
       ELSE \E r \in StartResponses :
            LET res == StartResult(r, id, state)
            IN  /\ lastReq' = [verb |-> "POST", path |-> <<"sessions">>,
                               body |-> LivyKind(language)]
                /\ Counters(0, 0, 1, 0, 0)
                /\ startResp' = r
                /\ id' = res.id
                /\ state' = res.state
                /\ outcome' = IF res.err = "none" THEN "ok" ELSE res.err
    /\ retval' = "none"
    /\ NoWait
    /\ NoRead
    /\ NoStatementYet
    /\ NoDelete
    /\ ArgsGone
    /\ started_sql_context' = FlagAfterStart(started_sql_context)
    /\ UNCHANGED <<language, config, history>>

(***************************************************************************)
(* The state property read by a caller: one GET /sessions.                 *)
(***************************************************************************)
ReadState ==
    /\ pc = "ready"
    /\ pc' = "ready"
    /\ op' = "state"
    /\ \E resp \in SessionListResponses :
        LET r == StateProperty(resp, id, state)
        IN  /\ state' = r.cache
            /\ outcome' = IF r.err = "none" THEN "ok" ELSE r.err
            /\ retval' = r.ret
            /\ current_state' = r.ret
            /\ fetched' = Fetched(resp, IdInt(id))
    /\ lastReq' = [verb |-> "GET", path |-> <<"sessions">>, body |-> "none"]
    /\ Counters(1, 0, 0, 0, 0)
    /\ NoWait
    /\ NoStatementYet
    /\ NoDelete
    /\ NoStart
    /\ ArgsGone
    /\ UNCHANGED <<id, started_sql_context, language, config, history>>

(***************************************************************************)
(* delete(): guarded by the cached state; one DELETE /sessions/<id>.       *)
(***************************************************************************)
Delete ==
    /\ pc = "ready"
    /\ pc' = "ready"
    /\ op' = "delete"
    /\ IF DeleteAllowed(state)
       THEN \E status \in DeleteStatuses :
            /\ lastReq' = [verb |-> "DELETE", path |-> <<"sessions", id>>,
                           body |-> "none"]
            /\ Counters(0, 0, 0, 1, 0)
            /\ deleteStatus' = status
            /\ IF DeleteAccepted(status)
               THEN /\ state' = "dead"
                    /\ outcome' = "ok"
                    /\ deleted' = TRUE
               ELSE /\ outcome' = "HttpError"
                    /\ UNCHANGED <<state, deleted>>
       ELSE /\ outcome' = "ValueError"
            /\ Counters(0, 0, 0, 0, 0)
            /\ NoDelete
            /\ UNCHANGED <<state, deleted, lastReq>>
    /\ retval' = "none"
    /\ NoWait
    /\ NoRead
    /\ NoStatementYet
    /\ NoStart
    /\ ArgsGone
    /\ UNCHANGED <<id, started_sql_context, language, config, cscReturned>>

(***************************************************************************)
(* wait_for_state(state, seconds_to_wait): the call, then one step per     *)
(* recursion level (state read, then return / sleep and recurse / raise).  *)
(***************************************************************************)
WaitTargets == {idle_session_state}

WaitForState ==
    /\ pc = "ready"
    /\ pc' = "wfs_poll"
    /\ op' = "wait_for_state"
    /\ \E wanted \in WaitTargets, seconds_to_wait \in -1..MaxWait :
        /\ target' = wanted
        /\ budget' = seconds_to_wait
        /\ T0' = seconds_to_wait
    /\ outcome' = "pending"
    /\ retval' = "none"
    /\ Counters(0, 0, 0, 0, 0)
    /\ NoRead
    /\ NoStatementYet
    /\ NoDelete
    /\ NoStart
    /\ ArgsGone
    /\ UNCHANGED <<session, config, history, lastReq>>

WfsPoll ==
    /\ pc = "wfs_poll"
    /\ \E resp \in SessionListResponses :
        LET r == StateProperty(resp, id, state)
            d == WaitDecision(r.ret, target, budget)
        IN  /\ state' = r.cache
            /\ current_state' = r.ret
            /\ fetched' = Fetched(resp, IdInt(id))
            /\ polls' = polls + 1
            /\ IF r.err # "none"
               THEN /\ pc' = "ready"
                    /\ outcome' = r.err
                    /\ retval' = "none"
                    /\ UNCHANGED <<budget, sleeps, history>>
               ELSE IF d = "return"
               THEN /\ pc' = IF op = "create_sql_context" THEN "exec_post" ELSE "ready"
                    /\ outcome' = IF op = "create_sql_context" THEN "pending" ELSE "ok"
                    /\ retval' = "none"
                    /\ UNCHANGED <<budget, sleeps, history>>
               ELSE IF d = "sleep"
               THEN /\ pc' = "wfs_poll"
                    /\ sleeps' = sleeps + 1
                    /\ budget' = budget - state_sleep_seconds
                    /\ UNCHANGED <<outcome, retval, history>>
               ELSE /\ pc' = "ready"
                    /\ outcome' = "LivyClientTimeoutError"
                    /\ retval' = r.ret
                    /\ UNCHANGED <<budget, sleeps, history>>
    /\ lastReq' = [verb |-> "GET", path |-> <<"sessions">>, body |-> "none"]
    /\ UNCHANGED <<id, started_sql_context, language, config, op, target, T0,
                   statement_id, obs, posts, deletes, stmtPolls, stmtSleeps,
                   stmtParity, deleteStatus, startResp, args>>

(***************************************************************************)
(* execute(commands): the call, the statement POST, then one step per      *)
(* iteration of the polling loop of _get_statement_output.                 *)
(***************************************************************************)
\* Variant: the session is marked busy while it executes.
ExecuteMarkingBusy ==
    /\ pc = "ready"
    /\ pc' = "exec_post"
    /\ op' = "execute"
    /\ outcome' = "pending"
    /\ retval' = "none"
    /\ Counters(0, 0, 0, 0, 0)
    /\ NoWait
    /\ NoRead
    /\ NoStatementYet
    /\ NoDelete
    /\ NoStart
    /\ ArgsGone
    /\ state' = "busy"
    /\ UNCHANGED <<id, started_sql_context, language, config, history, lastReq>>

Execute ==
    /\ pc = "ready"
    /\ pc' = "exec_post"
    /\ op' = "execute"
    /\ outcome' = "pending"
    /\ retval' = "none"
    /\ Counters(0, 0, 0, 0, 0)
    /\ NoWait
    /\ NoRead
    /\ NoStatementYet
    /\ NoDelete
    /\ NoStart
    /\ ArgsGone
    /\ UNCHANGED <<session, config, history, lastReq>>

ExecPost ==
    /\ pc = "exec_post"
    /\ \E r \in StatementPostResponses :
        /\ lastReq' = [verb |-> "POST", path |-> StatementsUrl(id),
                       body |-> IF op = "create_sql_context"
                                THEN SqlContextCommand(language) ELSE "code"]
        /\ posts' = posts + 1
        /\ IF r.ok
           THEN /\ pc' = "exec_poll"
                /\ statement_id' = r.id
                /\ UNCHANGED outcome
           ELSE /\ pc' = "ready"
                /\ outcome' = "HttpError"
                /\ UNCHANGED statement_id
    /\ UNCHANGED <<session, config, op, target, budget, T0, polls, sleeps, deletes,
                   stmtPolls, stmtSleeps, stmtParity, obs, retval, history,
                   current_state, fetched, deleteStatus, startResp, args>>

ExecPoll ==
    /\ pc = "exec_poll"
    /\ \E resp \in StatementListResponses :
        LET found == MatchingStatements(resp, statement_id)
        IN  IF ~resp.ok \/ Len(found) = 0
            THEN /\ pc' = "ready"
                 /\ outcome' = IF ~resp.ok THEN "HttpError" ELSE "IndexError"
                 /\ stmtParity' = FALSE
                 /\ UNCHANGED <<obs, retval, started_sql_context, history, stmtSleeps>>
            ELSE /\ obs' = found[1]
                 /\ IF StatementLoop(found[1].state) = "sleep"
                    THEN /\ pc' = "exec_poll"
                         /\ stmtSleeps' = Min(stmtSleeps + 1, MaxStmtPolls)
                         /\ stmtParity' = ~stmtParity
                         /\ UNCHANGED <<outcome, retval, started_sql_context, history>>
                    ELSE /\ pc' = "ready"
                         /\ outcome' = "ok"
                         /\ stmtParity' = FALSE
                         /\ UNCHANGED stmtSleeps
                         /\ IF op = "create_sql_context"
                            THEN /\ started_sql_context' = TRUE
                                 /\ retval' = "none"
                                 /\ cscReturned' = IF cscReturned = "none"
                                                   THEN "bootstrapped" ELSE cscReturned
                                 /\ UNCHANGED deleted
                            ELSE /\ retval' = StatementOutput(found[1].output)
                                 /\ UNCHANGED <<started_sql_context, history>>
    /\ stmtPolls' = Min(stmtPolls + 1, MaxStmtPolls)
    /\ lastReq' = [verb |-> "GET", path |-> StatementsUrl(id), body |-> "none"]
    /\ UNCHANGED <<id, state, language, config, op, target, budget, T0, statement_id,
                   polls, sleeps, posts, deletes, current_state, fetched,
                   deleteStatus, startResp, args>>

(***************************************************************************)
(* create_sql_context(): nothing when the flag is set; otherwise           *)
(* wait_for_state(idle, timeout), execute(bootstrap), then set the flag.   *)
(***************************************************************************)
\* Variant: the flag is not consulted.
AlreadyCreatedNever(flag) == FALSE

\* create_sql_context: the early return.
AlreadyCreated(flag) == flag

CreateSqlContext ==
    /\ pc = "ready"
    /\ op' = "create_sql_context"
    /\ Counters(0, 0, 0, 0, 0)
    /\ NoRead
    /\ NoStatementYet
    /\ retval' = "none"
    /\ IF AlreadyCreated(started_sql_context)
       THEN /\ pc' = "ready"
            /\ outcome' = "ok"
            /\ cscReturned' = IF cscReturned = "none" THEN "noop" ELSE cscReturned
            /\ NoWait
            /\ UNCHANGED deleted
       ELSE /\ pc' = "wfs_poll"
            /\ outcome' = "pending"
            /\ target' = idle_session_state
            /\ budget' = create_sql_context_timeout_seconds
            /\ T0' = create_sql_context_timeout_seconds
            /\ UNCHANGED history
    /\ NoDelete
    /\ NoStart
    /\ ArgsGone
    /\ UNCHANGED <<session, config, lastReq>>

Next ==
    \/ Start
    \/ ReadState
    \/ Delete
    \/ WaitForState
    \/ WfsPoll
    \/ Execute
    \/ ExecPost
    \/ ExecPoll
    \/ CreateSqlContext

Spec == Init /\ [][Next]_vars

\* A method that has been called runs on: the caller's thread is not stopped
\* inside wait_for_state, execute or create_sql_context.  Nothing obliges
\* the caller to make another call, nor the server to give any one answer.
InCall == WfsPoll \/ ExecPost \/ ExecPoll
FairSpec == Spec /\ WF_vars(InCall)

(***************************************************************************)
(* Properties.                                                             *)
(***************************************************************************)
\* ceil(a / b) for an integer a and b > 0.
CeilDiv(a, b) == -((-a) \div b)

\* A step that is a read of the state property: by a caller, or by one
\* recursion level of wait_for_state.
IsStateRead == (pc = "ready" /\ op' = "state") \/ pc = "wfs_poll"

\* C1: once a delete() call has succeeded, every later execute(),
\* wait_for_state() or delete() call on the session fails.
C1_DeleteIsTerminal ==
    [][(deleted /\ pc' = "ready" /\ op' \in {"execute", "wait_for_state", "delete"}
            /\ outcome' # "pending")
        => outcome' # "ok"]_vars

\* C2 (as stated): a wait_for_state(target, T) that times out has performed
\* ceil(T / state_sleep_seconds) state reads.
C2_PollsAreCeil ==
    (pc = "ready" /\ outcome = "LivyClientTimeoutError")
        => polls = CeilDiv(T0, state_sleep_seconds)

\* C2 (amended): a wait_for_state(target, T) that times out has slept
\* max(0, ceil(T / state_sleep_seconds)) times and has performed one state
\* read more than that: k + 1 reads for T = k * interval, one read for T < 0.
C2_PollsAreCeilPlusOne ==
    (pc = "ready" /\ outcome = "LivyClientTimeoutError")
        => /\ sleeps = Max(0, CeilDiv(T0, state_sleep_seconds))
           /\ polls = sleeps + 1

C2_Witness ==
    /\ pc = "ready"
    /\ op = "wait_for_state"
    /\ outcome = "LivyClientTimeoutError"
    /\ T0 = 3
    /\ state_sleep_seconds = 2
    /\ polls = 3

\* C3: a wait_for_state whose first state read returns the target has
\* returned normally with that one read and no sleep, whatever the budget.
C3_TargetAtFirstRead ==
    (op = "wait_for_state" /\ polls = 1 /\ current_state = target)
        => (pc = "ready" /\ outcome = "ok" /\ sleeps = 0)

C3_Witness ==
    /\ op = "wait_for_state"
    /\ polls = 1
    /\ current_state = target
    /\ T0 < 0
    /\ pc = "ready"
    /\ outcome = "ok"

\* C4: an execute() that has observed its statement in a state other than
\* "running" has returned, without raising, the text/plain payload for
\* status "ok" and the evalue for status "error"; while it is still polling
\* it has observed no state other than "running".
C4_ExecuteOutput ==
    /\ (pc = "exec_poll") => obs.state \in {"none", "running"}
    /\ (op = "execute" /\ obs.state \notin {"none", "running"})
        => /\ pc = "ready"
           /\ outcome = "ok"
           /\ (obs.output.status = "ok" => retval = obs.output.text)
           /\ (obs.output.status = "error" => retval = obs.output.evalue)

C4_Witness ==
    /\ op = "execute"
    /\ pc = "ready"
    /\ obs.state = "available"
    /\ obs.output.status = "error"
    /\ retval = "evalue"

\* C5: once a create_sql_context() call has returned normally, every later
\* create_sql_context() call returns at once and hands no request to the
\* transport.
C5_CreateIsIdempotent ==
    [][(pc = "ready" /\ cscReturned # "none" /\ op' = "create_sql_context")
        => /\ pc' = "ready"
           /\ outcome' = "ok"
           /\ polls' = 0 /\ posts' = 0 /\ deletes' = 0 /\ stmtPolls' = 0
           /\ lastReq' = lastReq]_vars

C5_Witness ==
    /\ cscReturned = "bootstrapped"
    /\ op = "create_sql_context"
    /\ pc = "ready"
    /\ outcome = "ok"
    /\ posts = 0

\* C6: whenever create_sql_context() turns the flag from false to true, the
\* bootstrap statement it submitted completed with output status "ok".
C6_FlagOnlyAfterOk ==
    [][(~started_sql_context /\ started_sql_context') => obs'.output.status = "ok"]_vars

\* C7: a read of the state property raises the consistency error when the
\* fetched list holds zero or several entries with the session's id, raises
\* the validation error when the one entry's state is not a known state,
\* leaves the cached state alone whenever it raises, and otherwise caches
\* the value it returns.
C7_StateRead ==
    [][IsStateRead
        => /\ (fetched'.ok /\ fetched'.n # 1) => outcome' = "AssertionError"
           /\ (fetched'.ok /\ fetched'.n = 1
                    /\ fetched'.st \notin possible_session_states)
                => outcome' = "ValueError"
           /\ (outcome' \in {"AssertionError", "ValueError", "HttpError"})
                => (state' = state /\ current_state' = "none")
           /\ (current_state' # "none")
                => (state' = current_state' /\ current_state' = fetched'.st)]_vars

C7_Witness ==
    /\ op = "state"
    /\ pc = "ready"
    /\ fetched.ok
    /\ fetched.n = 2
    /\ outcome = "AssertionError"

\* C8: delete() on a session whose cached state is not_started or dead
\* raises the invalid-operation error, issues no DELETE and changes neither
\* id, state nor the sql-context flag.
C8_DeleteRefused ==
    [][(pc = "ready" /\ op' = "delete" /\ state \in {"not_started", "dead"})
        => /\ outcome' = "ValueError"
           /\ deletes' = 0
           /\ lastReq' = lastReq
           /\ id' = id
           /\ state' = state
           /\ started_sql_context' = started_sql_context]_vars

C8_Witness ==
    /\ op = "delete"
    /\ pc = "ready"
    /\ outcome = "ValueError"
    /\ state = "dead"
    /\ deletes = 0

\* C9: delete() on a session whose cached state is neither not_started nor
\* dead issues exactly one DELETE for the session's id; answered with 200 or
\* 404 it leaves the state dead, and when the transport raises the state is
\* not changed.
C9_DeleteIssued ==
    [][(pc = "ready" /\ op' = "delete" /\ state \notin {"not_started", "dead"})
        => /\ deletes' = 1
           /\ lastReq' = [verb |-> "DELETE", path |-> <<"sessions", id>>,
                          body |-> "none"]
           /\ (deleteStatus' \in {200, 404})
                => (state' = "dead" /\ outcome' = "ok")
           /\ (deleteStatus' \notin {200, 404})
                => (state' = state /\ outcome' = "HttpError")]_vars

C9_Witness ==
    /\ op = "delete"
    /\ pc = "ready"
    /\ deleteStatus = 404
    /\ deletes = 1
    /\ state = "dead"
    /\ outcome = "ok"

\* C10: once the id is not the sentinel, no later operation (a further
\* start() included) changes it.
C10_IdImmutable ==
    [][(id # NotStartedId) => (id' = id)]_vars

\* C11: once the sql-context flag is true, no step of any operation makes it
\* false again.
C11_FlagMonotonic ==
    [][started_sql_context => started_sql_context']_vars

C11_Witness ==
    /\ started_sql_context
    /\ cscReturned = "bootstrapped"
    /\ op = "start"
    /\ outcome = "ok"
    /\ deleted

\* C12: the cached state is always one of the six known states.
C12_StateInEnumeration ==
    state \in possible_session_states

\* C13: a wait_for_state that returned normally last read the target; one
\* that raised the timeout error had no budget left and last read a state
\* other than the target, which is the state the error names and the state
\* in the cache.
C13_WaitOutcome ==
    /\ (op = "wait_for_state" /\ pc = "ready" /\ outcome = "ok")
        => current_state = target
    /\ (op = "create_sql_context" /\ pc \in {"exec_post", "exec_poll"})
        => current_state = target
    /\ (pc = "ready" /\ outcome = "LivyClientTimeoutError")
        => /\ budget <= 0
           /\ current_state # "none"
           /\ current_state # target
           /\ retval = current_state
           /\ state = current_state

C13_Witness ==
    /\ op = "wait_for_state"
    /\ pc = "ready"
    /\ outcome = "LivyClientTimeoutError"
    /\ sleeps >= 1
    /\ budget <= 0
    /\ current_state = "starting"
    /\ retval = "starting"
    /\ state = "starting"

\* C14: a create_sql_context() call that has submitted its statement has
\* read the state idle before, inside the same call; a call that ended in a
\* timeout or in a failed state read has submitted nothing and has left the
\* flag false.
C14_BootstrapOnlyWhenIdle ==
    /\ (op = "create_sql_context" /\ (posts > 0 \/ pc \in {"exec_post", "exec_poll"}))
        => (polls >= 1 /\ current_state = idle_session_state)
    /\ (op = "create_sql_context" /\ pc = "ready"
            /\ (outcome \in {"LivyClientTimeoutError", "AssertionError", "ValueError"}
                    \/ (outcome = "HttpError" /\ current_state = "none")))
        => (posts = 0 /\ stmtPolls = 0 /\ ~started_sql_context)

C14_Witness ==
    /\ op = "create_sql_context"
    /\ pc = "ready"
    /\ outcome = "LivyClientTimeoutError"
    /\ polls >= 2
    /\ posts = 0
    /\ ~started_sql_context

\* C16: a state read inside wait_for_state that fails with the consistency
\* or the validation error ends the call with that error in the same step:
\* no sleep and no further read follow, whatever budget is left.
C16_WaitDoesNotRetryErrors ==
    [][(pc = "wfs_poll" /\ fetched'.ok
            /\ (fetched'.n # 1 \/ fetched'.st \notin possible_session_states))
        => /\ pc' = "ready"
           /\ outcome' = (IF fetched'.n # 1 THEN "AssertionError" ELSE "ValueError")
           /\ polls' = polls + 1
           /\ sleeps' = sleeps
           /\ budget' = budget]_vars

C16_Witness ==
    /\ op = "wait_for_state"
    /\ pc = "ready"
    /\ outcome = "ValueError"
    /\ fetched.st = "unknown"
    /\ budget > 0
    /\ sleeps >= 1

\* C17: start() hands exactly one POST /sessions to the transport; when it
\* is answered the id becomes the string form of the returned id and the
\* state the returned state, and when the transport raises the error reaches
\* the caller with id and state unchanged.
C17_StartOnce ==
    [][(pc = "ready" /\ op' = "start")
        => /\ pc' = "ready"
           /\ posts' = 1
           /\ lastReq'.verb = "POST" /\ lastReq'.path = <<"sessions">>
           /\ startResp'.ok
                => /\ outcome' = "ok"
                   /\ (startResp'.id = 7 => id' = "7")
                   /\ (startResp'.id = 8 => id' = "8")
                   /\ state' = startResp'.state
           /\ ~startResp'.ok
                => /\ outcome' = "HttpError"
                   /\ id' = id
                   /\ state' = state]_vars

C17_Witness ==
    /\ op = "start"
    /\ pc = "ready"
    /\ startResp = [ok |-> TRUE, id |-> 7, state |-> idle_session_state]
    /\ id = "7"
    /\ state = idle_session_state
    /\ posts = 1

\* C18: no step of an execute() call, whether the call returns or raises,
\* changes id, language, the cached state or the sql-context flag.
C18_ExecuteFrame ==
    [][((pc = "ready" /\ op' = "execute")
            \/ (op = "execute" /\ pc \in {"exec_post", "exec_poll"}))
        => /\ id' = id
           /\ language' = language
           /\ state' = state
           /\ started_sql_context' = started_sql_context]_vars

C18_Witness ==
    /\ op = "execute"
    /\ pc = "ready"
    /\ outcome = "IndexError"
    /\ obs.state = "running"
    /\ state = idle_session_state

\* C19: whenever the sql-context flag is true the id is not the sentinel.
C19_FlagNeedsRealId ==
    started_sql_context => id # NotStartedId

C19_Witness ==
    /\ id = NotStartedId
    /\ op = "create_sql_context"
    /\ pc = "ready"
    /\ outcome = "AssertionError"
    /\ fetched.ok
    /\ ~started_sql_context

\* C20: a session that was just constructed has handed nothing to the
\* transport; built with the sentinel id it is not_started with the flag
\* false, built with any other id it is busy with the flag equal to the
\* sql_created argument.
C20_Construction ==
    (op = "init")
        => /\ lastReq = NoRequest
           /\ polls = 0 /\ posts = 0 /\ deletes = 0 /\ stmtPolls = 0
           /\ id = args.session_id
           /\ (args.session_id = NotStartedId)
                => (state = "not_started" /\ ~started_sql_context)
           /\ (args.session_id # NotStartedId)
                => (state = "busy" /\ started_sql_context = args.sql_created)

C20_Witness ==
    /\ op = "init"
    /\ args = [session_id |-> "7", sql_created |-> TRUE]
    /\ state = "busy"
    /\ started_sql_context

\* C15: a poll of the statement loop that finds the statement running sleeps
\* once and stays in the loop, one that finds it in another state ends the
\* call normally in that step, and no step of the loop raises a timeout; so
\* a call that is in the loop either returns (or raises a transport or
\* lookup error) or goes on finding the statement running for ever.
C15_StatementPollUnbounded ==
    /\ [][(pc = "exec_poll" /\ outcome' \notin {"HttpError", "IndexError"})
            => IF obs'.state = "running"
               THEN /\ pc' = "exec_poll"
                    /\ outcome' = "pending"
                    /\ stmtSleeps' = Min(stmtSleeps + 1, MaxStmtPolls)
               ELSE /\ pc' = "ready"
                    /\ outcome' = "ok"
                    /\ stmtSleeps' = stmtSleeps]_vars
    /\ [](pc = "exec_poll"
            => (<>(pc = "ready")
                \/ []<>(pc = "exec_poll" /\ obs.state = "running")))

C15_Witness ==
    /\ op = "execute"
    /\ pc = "exec_poll"
    /\ obs.state = "running"
    /\ stmtSleeps = MaxStmtPolls
    /\ stmtPolls = MaxStmtPolls
    /\ outcome = "pending"

====
